---- MODULE Spec2Model ----
(***************************************************************************)
(* What-if analysis engine (src/whatif.py, class WhatIfAnalysis).          *)
(*                                                                         *)
(* Python values are modelled as follows.                                  *)
(*   dict          a function whose DOMAIN is the set of keys present;     *)
(*                 d.get(k, v) is Get(d, k, v)                             *)
(*   plan node     a dict with keys among "Node Type", "Relation Name",    *)
(*                 "Total Cost", "Plans", "Node ID"                        *)
(*   modifications an insertion-ordered dict: a sequence of <<key, value>> *)
(*                 pairs with pairwise distinct keys                       *)
(*   SQL string    a sequence of tokens, each one statement                *)
(*                 ("SET enable_seqscan = OFF;") or one blank (" ")        *)
(*   object        the dict under qep["Plan"] lives in `heap` and is       *)
(*                 referred to by its index, so that two dicts that share  *)
(*                 it (dict.copy() is shallow) see each other's writes     *)
(*   cost          a number with three decimals, held as an integer count  *)
(*                 of thousandths                                          *)
(***************************************************************************)
EXTENDS Integers, Sequences, FiniteSets, TLC

VARIABLES
    sessions,     \* engine sessions opened so far: session id -> planner configuration
    heap,         \* plan objects: reference -> plan tree
    calls,        \* retrieve_qep / retrieve_aqp calls: call id -> frame
    preview,      \* the last modify_qep call: arguments, snapshot, return value
    comparison    \* the last compare_costs call: arguments and outcome

vars == <<sessions, heap, calls, preview, comparison>>

----------------------------------------------------------------------------
(* Bounds of the model *)

NumCalls == 2     \* concurrent retrieve calls
MaxFan == 11      \* widest fan-out of a plan node the engine returns
MaxDeep == 1      \* fan-out of the deeper nodes of a plan
MaxMods == 2      \* entries of a ModificationSpec
MaxCost == 25     \* largest Total Cost, in thousandths

(* Program constants *)

Base == 10        \* child_id = current_id * 10
Sentinel == -1    \* .get("Total Cost", -1)
Places == 2       \* round(..., 2)

----------------------------------------------------------------------------
(* Python dict helpers *)

Get(d, k, default) == IF k \in DOMAIN d THEN d[k] ELSE default

SetItem(d, k, v) == [x \in DOMAIN d \cup {k} |-> IF x = k THEN v ELSE d[x]]

HasKey(modifications, key) == \E i \in DOMAIN modifications : modifications[i][1] = key

Lookup(modifications, key) ==
    modifications[CHOOSE i \in DOMAIN modifications : modifications[i][1] = key][2]

Children(node) == Get(node, "Plans", <<>>)

----------------------------------------------------------------------------
(* assign_node_ids: the nested function of retrieve_qep and retrieve_aqp *)

RECURSIVE assign_node_ids_from_one(_, _)
assign_node_ids_from_one(node, current_id) ==
    LET child_id == current_id * Base
        stamped == SetItem(node, "Node ID", current_id)
    IN  IF "Plans" \in DOMAIN node
        THEN [stamped EXCEPT !["Plans"] =
                 [i \in DOMAIN node["Plans"] |->
                     assign_node_ids_from_one(node["Plans"][i], child_id + i)]]
        ELSE stamped

RECURSIVE assign_node_ids_no_index(_, _)
assign_node_ids_no_index(node, current_id) ==
    LET child_id == current_id * Base
        stamped == SetItem(node, "Node ID", current_id)
    IN  IF "Plans" \in DOMAIN node
        THEN [stamped EXCEPT !["Plans"] =
                 [i \in DOMAIN node["Plans"] |->
                     assign_node_ids_no_index(node["Plans"][i], child_id)]]
        ELSE stamped

\* enumerate() counts from 0, a TLA+ sequence from 1: child i of the sequence
\* is enumerate's i - 1.
RECURSIVE assign_node_ids(_, _)
assign_node_ids(node, current_id) ==
    LET child_id == current_id * Base
        stamped == SetItem(node, "Node ID", current_id)
    IN  IF "Plans" \in DOMAIN node
        THEN [stamped EXCEPT !["Plans"] =
                 [i \in DOMAIN node["Plans"] |->
                     assign_node_ids(node["Plans"][i], child_id + (i - 1))]]
        ELSE stamped

----------------------------------------------------------------------------
(* modify_qep.apply_changes *)

RECURSIVE apply_changes_scan_last(_, _)
apply_changes_scan_last(node, modifications) ==
    LET changed ==
            IF "Node ID" \in DOMAIN node /\ HasKey(modifications, node["Node ID"])
            THEN LET modification == Lookup(modifications, node["Node ID"])
                     a == IF "Node Type" \in DOMAIN modification
                          THEN SetItem(node, "Node Type", modification["Node Type"])
                          ELSE node
                 IN  IF "Scan Type" \in DOMAIN modification
                     THEN SetItem(a, "Node Type", modification["Scan Type"])
                     ELSE a
            ELSE node
    IN  IF "Plans" \in DOMAIN changed
        THEN [changed EXCEPT !["Plans"] =
                 [i \in DOMAIN changed["Plans"] |->
                     apply_changes_scan_last(changed["Plans"][i], modifications)]]
        ELSE changed

RECURSIVE apply_changes_any_node(_, _)
apply_changes_any_node(node, modifications) ==
    LET changed ==
            IF modifications # <<>>
            THEN LET modification == modifications[1][2]
                     a == IF "Scan Type" \in DOMAIN modification
                          THEN SetItem(node, "Node Type", modification["Scan Type"])
                          ELSE node
                 IN  IF "Node Type" \in DOMAIN modification
                     THEN SetItem(a, "Node Type", modification["Node Type"])
                     ELSE a
            ELSE node
    IN  IF "Plans" \in DOMAIN changed
        THEN [changed EXCEPT !["Plans"] =
                 [i \in DOMAIN changed["Plans"] |->
                     apply_changes_any_node(changed["Plans"][i], modifications)]]
        ELSE changed

\* node.get("Node ID") is None for a node that was never stamped, and None is
\* no key of modifications (its keys are node ids).
RECURSIVE apply_changes(_, _)
apply_changes(node, modifications) ==
    LET changed ==
            IF "Node ID" \in DOMAIN node /\ HasKey(modifications, node["Node ID"])
            THEN LET modification == Lookup(modifications, node["Node ID"])
                     a == IF "Scan Type" \in DOMAIN modification
                          THEN SetItem(node, "Node Type", modification["Scan Type"])
                          ELSE node
                 IN  IF "Node Type" \in DOMAIN modification
                     THEN SetItem(a, "Node Type", modification["Node Type"])
                     ELSE a
            ELSE node
    IN  IF "Plans" \in DOMAIN changed
        THEN [changed EXCEPT !["Plans"] =
                 [i \in DOMAIN changed["Plans"] |->
                     apply_changes(changed["Plans"][i], modifications)]]
        ELSE changed

----------------------------------------------------------------------------
(* SQL text.  A string is a sequence of tokens; "" is <<>>.                *)

Blank == " "

\* " ".join(settings)
RECURSIVE Join(_)
Join(settings) ==
    IF settings = <<>> THEN <<>>
    ELSE IF Len(settings) = 1 THEN settings[1]
    ELSE settings[1] \o <<Blank>> \o Join(Tail(settings))

IndexScanSetting ==
    << "SET enable_seqscan = OFF;", Blank,
       "SET enable_indexscan = ON;", Blank,
       "SET enable_bitmapscan = OFF;" >>

SeqScanSetting ==
    << "SET enable_seqscan = ON;", Blank,
       "SET enable_indexscan = OFF;", Blank,
       "SET enable_bitmapscan = OFF;" >>

get_operator_setting_hash_as_merge(operator_type) ==
    CASE operator_type = "Merge Join" ->
            << "SET enable_mergejoin = ON;", Blank,
               "SET enable_hashjoin = OFF;", Blank,
               "SET enable_nestloop = OFF;" >>
      [] operator_type = "Hash Join" ->
            << "SET enable_mergejoin = ON;", Blank,
               "SET enable_hashjoin = OFF;", Blank,
               "SET enable_nestloop = OFF;" >>
      [] operator_type = "Nested Loop" ->
            << "SET enable_mergejoin = OFF;", Blank,
               "SET enable_hashjoin = OFF;", Blank,
               "SET enable_nestloop = ON;" >>
      [] OTHER -> <<>>

get_operator_setting(operator_type) ==
    CASE operator_type = "Merge Join" ->
            << "SET enable_mergejoin = ON;", Blank,
               "SET enable_hashjoin = OFF;", Blank,
               "SET enable_nestloop = OFF;" >>
      [] operator_type = "Hash Join" ->
            << "SET enable_mergejoin = OFF;", Blank,
               "SET enable_hashjoin = ON;", Blank,
               "SET enable_nestloop = OFF;" >>
      [] operator_type = "Nested Loop" ->
            << "SET enable_mergejoin = OFF;", Blank,
               "SET enable_hashjoin = OFF;", Blank,
               "SET enable_nestloop = ON;" >>
      [] OTHER -> <<>>

\* One pass of the loop body of apply_planner_settings: the settings list
\* after the entry `changes`.
SettingsAfterEntry(settings, changes) ==
    LET s1 == IF "Scan Type" \in DOMAIN changes
              THEN LET scan_type == changes["Scan Type"]
                   IN  IF scan_type = "Index Scan" THEN Append(settings, IndexScanSetting)
                       ELSE IF scan_type = "Seq Scan" THEN Append(settings, SeqScanSetting)
                       ELSE settings
              ELSE settings
    IN  IF "Node Type" \in DOMAIN changes
        THEN Append(s1, get_operator_setting(changes["Node Type"]))
        ELSE s1

\* The settings list after the first n entries of modifications.items().
RECURSIVE SettingsList(_, _)
SettingsList(modifications, n) ==
    IF n = 0 THEN <<>>
    ELSE SettingsAfterEntry(SettingsList(modifications, n - 1), modifications[n][2])

apply_planner_settings(modifications) ==
    Join(SettingsList(modifications, Len(modifications)))

----------------------------------------------------------------------------
(* The engine, at the boundary the code uses: psycopg2.connect opens a     *)
(* session with the default planner configuration, cursor.execute of SET   *)
(* statements changes the configuration of that session alone.             *)

Gucs == { "enable_seqscan", "enable_indexscan", "enable_bitmapscan",
          "enable_mergejoin", "enable_hashjoin", "enable_nestloop" }

Defaults == [g \in Gucs |-> "ON"]

\* The assignment a SET statement makes: <<parameter, value>>.
Assignment(stmt) ==
    CASE stmt = "SET enable_seqscan = ON;" -> <<"enable_seqscan", "ON">>
      [] stmt = "SET enable_seqscan = OFF;" -> <<"enable_seqscan", "OFF">>
      [] stmt = "SET enable_indexscan = ON;" -> <<"enable_indexscan", "ON">>
      [] stmt = "SET enable_indexscan = OFF;" -> <<"enable_indexscan", "OFF">>
      [] stmt = "SET enable_bitmapscan = ON;" -> <<"enable_bitmapscan", "ON">>
      [] stmt = "SET enable_bitmapscan = OFF;" -> <<"enable_bitmapscan", "OFF">>
      [] stmt = "SET enable_mergejoin = ON;" -> <<"enable_mergejoin", "ON">>
      [] stmt = "SET enable_mergejoin = OFF;" -> <<"enable_mergejoin", "OFF">>
      [] stmt = "SET enable_hashjoin = ON;" -> <<"enable_hashjoin", "ON">>
      [] stmt = "SET enable_hashjoin = OFF;" -> <<"enable_hashjoin", "OFF">>
      [] stmt = "SET enable_nestloop = ON;" -> <<"enable_nestloop", "ON">>
      [] stmt = "SET enable_nestloop = OFF;" -> <<"enable_nestloop", "OFF">>

IsStatement(token) == token # Blank

\* The statements of a SQL string, in order.
Statements(sql) == SelectSeq(sql, IsStatement)

\* The configuration of a session after it ran the statements in order.
RECURSIVE RunStatements(_, _)
RunStatements(cfg, stmts) ==
    IF stmts = <<>> THEN cfg
    ELSE LET a == Assignment(stmts[1])
         IN  RunStatements([cfg EXCEPT ![a[1]] = a[2]], Tail(stmts))

\* cursor.execute(planner_settings) on a session whose configuration is cfg.
ExecuteSettingsOn(cfg, planner_settings) == RunStatements(cfg, Statements(planner_settings))

\* connect_to_db with a pool of one session, handed to every caller.
connect_to_db_pooled(open) ==
    IF open = <<>> THEN [sessions |-> <<Defaults>>, conn |-> 1]
    ELSE [sessions |-> open, conn |-> 1]

\* connect_to_db: psycopg2.connect opens a new session on every call.
connect_to_db(open) ==
    [sessions |-> Append(open, Defaults), conn |-> Len(open) + 1]

----------------------------------------------------------------------------
(* Inputs: the plans the engine returns, the specs callers pass            *)

PlanNode(node_type, kids) ==
    LET fields == [x \in {"Node Type", "Relation Name", "Total Cost"} |->
                      IF x = "Node Type" THEN node_type
                      ELSE IF x = "Relation Name" THEN "lineitem"
                      ELSE MaxCost]
    IN  IF kids = <<>> THEN fields ELSE SetItem(fields, "Plans", kids)

Leaf == PlanNode("Seq Scan", <<>>)

\* A node with n children: `first`, `second`, then leaves.
Fan(node_type, n, first, second) ==
    PlanNode(node_type,
             [i \in 1..n |-> IF i = 1 THEN first ELSE IF i = 2 THEN second ELSE Leaf])

\* Plans up to three levels below the root, the root and its first child with
\* up to MaxFan children.
WidePlans ==
    { Fan("Append", n,
          Fan("Merge Append", c1, Fan("Hash Join", g, Leaf, Leaf), Leaf),
          Fan("Nested Loop", c2, Fan("Merge Join", h, Leaf, Leaf), Leaf)) :
        n \in 0..MaxFan, c1 \in 0..MaxFan, c2 \in 0..MaxDeep,
        g \in 0..MaxDeep, h \in 0..MaxDeep }

NarrowPlans ==
    { Leaf,
      Fan("Hash Join", 2, Leaf, Leaf),
      Fan("Nested Loop", 2, Fan("Sort", 1, Leaf, Leaf), Leaf) }

SessionPlans == { Fan("Hash Join", 2, Leaf, Leaf) }

\* The dicts over `keys` whose values come from `values`, a key at a time absent.
Changes(scan_types, node_types) ==
    { [x \in {"Scan Type", "Node Type"} |-> IF x = "Scan Type" THEN s ELSE n] :
          s \in scan_types, n \in node_types }
    \cup { [x \in {"Scan Type"} |-> s] : s \in scan_types }
    \cup { [x \in {"Node Type"} |-> n] : n \in node_types }
    \cup { [x \in {} |-> "Seq Scan"] }

\* The insertion-ordered dicts of at most n entries, keys in `keys`.
RECURSIVE Dicts(_, _, _)
Dicts(keys, values, n) ==
    IF n = 0 THEN { <<>> }
    ELSE LET shorter == Dicts(keys, values, n - 1)
         IN  shorter \cup
             { Append(d, <<k, v>>) :
                 d \in { e \in shorter : Len(e) = n - 1 },
                 k \in keys, v \in values }

DistinctKeys(d) == \A i, j \in DOMAIN d : d[i][1] = d[j][1] => i = j

\* Specs for the directive compiler: every known override and an unknown
\* one; the compiler never reads the keys, so entry i has the i-th key.
DirectiveKeys == <<1, 10, 11, 100>>

DirectiveMods ==
    LET values == Changes({"Index Scan", "Seq Scan", "Bitmap Heap Scan"},
                          {"Merge Join", "Hash Join", "Nested Loop", "Bogus Op"})
    IN  UNION { { [i \in 1..n |-> <<DirectiveKeys[i], v[i]>>] : v \in [1..n -> values] } :
                n \in 0..MaxMods }

\* Specs for the preview: keys of nodes of the plan and one of no node.
PreviewMods ==
    { d \in Dicts({1, 10, 5},
                  Changes({"Index Scan"}, {"Hash Join", "Bogus Op"}),
                  MaxMods) : DistinctKeys(d) }

OnlyNodeType(t) == [x \in {"Node Type"} |-> t]
OnlyScanType(t) == [x \in {"Scan Type"} |-> t]

FewMods ==
    { <<>>,
      << <<1, OnlyScanType("Index Scan")>> >>,
      << <<10, OnlyNodeType("Merge Join")>> >>,
      << <<1, OnlyNodeType("Bogus Op")>>, <<10, OnlyNodeType("Bogus Op")>> >> }

----------------------------------------------------------------------------
(* retrieve_qep and retrieve_aqp, a step per engine round trip             *)

NoResult == [kind |-> "none"]
Raised(exc) == [kind |-> "raise", exc |-> exc]
Returned(ref) == [kind |-> "return", Plan |-> ref]

IdleCall ==
    [ op |-> "none", pc |-> "idle", modifications |-> <<>>,
      planner_settings |-> <<>>, conn |-> 0, plan_cfg |-> <<>>,
      result |-> NoResult ]

\* retrieve_qep(query) is entered.
CallRetrieveQEP(c) ==
    /\ calls[c].pc = "idle"
    /\ calls' = [calls EXCEPT ![c].op = "retrieve_qep", ![c].pc = "connect"]
    /\ UNCHANGED <<sessions, heap, preview, comparison>>

\* retrieve_aqp(original_sql, modifications) is entered: the settings are
\* compiled before the connection is opened.
CallRetrieveAQP(c, modifications) ==
    /\ calls[c].pc = "idle"
    /\ calls' = [calls EXCEPT ![c].op = "retrieve_aqp",
                              ![c].pc = "connect",
                              ![c].modifications = modifications,
                              ![c].planner_settings =
                                  apply_planner_settings(modifications)]
    /\ UNCHANGED <<sessions, heap, preview, comparison>>

\* with self.connect_to_db() as conn: with conn.cursor() as cursor:
ConnectToDb(c) ==
    /\ calls[c].pc = "connect"
    /\ LET got == connect_to_db(sessions)
       IN  /\ sessions' = got.sessions
           /\ calls' = [calls EXCEPT
                  ![c].conn = got.conn,
                  ![c].pc = IF calls[c].op = "retrieve_aqp"
                            THEN "settings" ELSE "explain"]
    /\ UNCHANGED <<heap, preview, comparison>>

\* psycopg2.OperationalError in connect_to_db: ConnectionError leaves the call.
ConnectFails(c) ==
    /\ calls[c].pc = "connect"
    /\ calls' = [calls EXCEPT ![c].pc = "raised",
                              ![c].result = Raised("ConnectionError")]
    /\ UNCHANGED <<sessions, heap, preview, comparison>>

\* if planner_settings: cursor.execute(planner_settings)
ExecuteSettings(c) ==
    /\ calls[c].pc = "settings"
    /\ sessions' =
          IF calls[c].planner_settings # <<>>
          THEN [sessions EXCEPT ![calls[c].conn] =
                    ExecuteSettingsOn(@, calls[c].planner_settings)]
          ELSE sessions
    /\ calls' = [calls EXCEPT ![c].pc = "explain"]
    /\ UNCHANGED <<heap, preview, comparison>>

\* cursor.execute(planner_settings) raises psycopg2.Error.
ExecuteSettingsFails(c) ==
    /\ calls[c].pc = "settings"
    /\ calls[c].planner_settings # <<>>
    /\ calls' = [calls EXCEPT ![c].pc = "raised",
                              ![c].result = Raised("RuntimeError")]
    /\ UNCHANGED <<sessions, heap, preview, comparison>>

\* cursor.execute("EXPLAIN (FORMAT JSON) ..."), fetchone, assign_node_ids,
\* return: the engine plans under the configuration of the call's session
\* and answers with `plan`.
ExecuteExplain(c, plan) ==
    /\ calls[c].pc = "explain"
    /\ heap' = Append(heap, assign_node_ids(plan, 1))
    /\ calls' = [calls EXCEPT ![c].pc = "returned",
                              ![c].plan_cfg = <<sessions[calls[c].conn]>>,
                              ![c].result = Returned(Len(heap) + 1)]
    /\ UNCHANGED <<sessions, preview, comparison>>

\* cursor.execute("EXPLAIN ...") raises psycopg2.Error.
ExecuteExplainFails(c) ==
    /\ calls[c].pc = "explain"
    /\ calls' = [calls EXCEPT ![c].pc = "raised",
                              ![c].result = Raised("RuntimeError")]
    /\ UNCHANGED <<sessions, heap, preview, comparison>>

----------------------------------------------------------------------------
(* modify_qep *)

NoPreview == [kind |-> "none"]

\* modify_qep(original_qep, modifications), original_qep a dict a retrieval
\* returned.  original_qep.copy() is a new outer dict whose "Plan" is the same
\* object; apply_changes writes into that object.
ModifyQEP(original_qep, modifications) ==
    LET modified_qep == [Plan |-> original_qep.Plan]
    IN  /\ heap' = [heap EXCEPT ![modified_qep.Plan] = apply_changes(@, modifications)]
        /\ preview' = [ kind |-> "return",
                        original_qep |-> original_qep,
                        modifications |-> modifications,
                        before |-> heap[original_qep.Plan],
                        modified_qep |-> modified_qep ]
        /\ UNCHANGED <<sessions, calls, comparison>>

\* One preview of a retrieved plan.
Preview(mods) ==
    \E c \in DOMAIN calls, m \in mods :
        /\ calls[c].pc = "returned"
        /\ preview = NoPreview
        /\ ModifyQEP([Plan |-> calls[c].result.Plan], m)

----------------------------------------------------------------------------
(* compare_costs *)

\* Thousandths in one unit of cost, and in one unit of the rounded result.
Unit == 10 ^ (Places + 1)
Step == Unit \div (10 ^ Places)

\* round(Decimal(x), Places): x in thousandths, the result in hundredths;
\* the decimal context rounds half to even.
RoundHalfUp(x) ==
    LET q == x \div Step
        r == x % Step
    IN  IF 2 * r < Step THEN q ELSE q + 1

Round(x) ==
    LET q == x \div Step
        r == x % Step
    IN  IF 2 * r < Step THEN q
        ELSE IF 2 * r > Step THEN q + 1
        ELSE IF q % 2 = 0 THEN q ELSE q + 1

compare_costs_and(qep, aqp) ==
    LET original_cost == Get(qep.Plan, "Total Cost", Sentinel * Unit)
        modified_cost == Get(aqp.Plan, "Total Cost", Sentinel * Unit)
        cost_difference == Round(modified_cost - original_cost)
    IN  IF original_cost = Sentinel * Unit /\ modified_cost = Sentinel * Unit
        THEN [kind |-> "raise", exc |-> "ValueError"]
        ELSE [kind |-> "return",
              value |-> [x \in {"Original Cost", "Modified Cost", "Cost Difference"} |->
                            IF x = "Original Cost" THEN original_cost
                            ELSE IF x = "Modified Cost" THEN modified_cost
                            ELSE cost_difference]]

compare_costs_half_up(qep, aqp) ==
    LET original_cost == Get(qep.Plan, "Total Cost", Sentinel * Unit)
        modified_cost == Get(aqp.Plan, "Total Cost", Sentinel * Unit)
        cost_difference == RoundHalfUp(modified_cost - original_cost)
    IN  IF original_cost = Sentinel * Unit \/ modified_cost = Sentinel * Unit
        THEN [kind |-> "raise", exc |-> "ValueError"]
        ELSE [kind |-> "return",
              value |-> [x \in {"Original Cost", "Modified Cost", "Cost Difference"} |->
                            IF x = "Original Cost" THEN original_cost
                            ELSE IF x = "Modified Cost" THEN modified_cost
                            ELSE cost_difference]]

\* The outcome of compare_costs(qep, aqp): the dict it returns or the
\* exception it raises.  "Cost Difference" is in hundredths.
compare_costs(qep, aqp) ==
    LET original_cost == Get(qep.Plan, "Total Cost", Sentinel * Unit)
        modified_cost == Get(aqp.Plan, "Total Cost", Sentinel * Unit)
        cost_difference == Round(modified_cost - original_cost)
    IN  IF original_cost = Sentinel * Unit \/ modified_cost = Sentinel * Unit
        THEN [kind |-> "raise", exc |-> "ValueError"]
        ELSE [kind |-> "return",
              value |-> [x \in {"Original Cost", "Modified Cost", "Cost Difference"} |->
                            IF x = "Original Cost" THEN original_cost
                            ELSE IF x = "Modified Cost" THEN modified_cost
                            ELSE cost_difference]]

NoComparison == [kind |-> "none"]

\* Plan roots for the comparator: a Total Cost of 0..MaxCost thousandths, or none.
CostRoot(cost) ==
    [x \in {"Node Type", "Total Cost"} |-> IF x = "Node Type" THEN "Seq Scan" ELSE cost]

CostPlans ==
    { [Plan |-> CostRoot(cost)] : cost \in 0..MaxCost }
    \cup { [Plan |-> [x \in {"Node Type"} |-> "Seq Scan"]] }

CompareCosts(qep, aqp) ==
    /\ comparison' = [kind |-> "called", qep |-> qep, aqp |-> aqp,
                      outcome |-> compare_costs(qep, aqp)]
    /\ UNCHANGED <<sessions, heap, calls, preview>>

----------------------------------------------------------------------------
(* Specifications *)

InitRest ==
    /\ sessions = <<>>
    /\ heap = <<>>
    /\ preview = NoPreview
    /\ comparison = NoComparison

Init == InitRest /\ calls = [c \in 1..NumCalls |-> IdleCall]

InitOne == InitRest /\ calls = [c \in {1} |-> IdleCall]

\* Concurrent retrievals.
Next ==
    \/ \E c \in DOMAIN calls : CallRetrieveQEP(c)
    \/ \E c \in DOMAIN calls, m \in FewMods : CallRetrieveAQP(c, m)
    \/ \E c \in DOMAIN calls : ConnectToDb(c)
    \/ \E c \in DOMAIN calls : ConnectFails(c)
    \/ \E c \in DOMAIN calls : ExecuteSettings(c)
    \/ \E c \in DOMAIN calls : ExecuteSettingsFails(c)
    \/ \E c \in DOMAIN calls, p \in SessionPlans : ExecuteExplain(c, p)
    \/ \E c \in DOMAIN calls : ExecuteExplainFails(c)
Spec == Init /\ [][Next]_vars

\* One retrieval of a wide plan.
NextIds ==
    \/ \E c \in DOMAIN calls : CallRetrieveQEP(c)
    \/ \E c \in DOMAIN calls, m \in FewMods : CallRetrieveAQP(c, m)
    \/ \E c \in DOMAIN calls : ConnectToDb(c)
    \/ \E c \in DOMAIN calls : ConnectFails(c)
    \/ \E c \in DOMAIN calls : ExecuteSettings(c)
    \/ \E c \in DOMAIN calls : ExecuteSettingsFails(c)
    \/ \E c \in DOMAIN calls, p \in WidePlans : ExecuteExplain(c, p)
    \/ \E c \in DOMAIN calls : ExecuteExplainFails(c)
SpecIds == InitOne /\ [][NextIds]_vars

\* One retrieve_aqp over the specs of the directive compiler.
NextDirectives ==
    \/ \E c \in DOMAIN calls : CallRetrieveQEP(c)
    \/ \E c \in DOMAIN calls, m \in DirectiveMods : CallRetrieveAQP(c, m)
    \/ \E c \in DOMAIN calls : ConnectToDb(c)
    \/ \E c \in DOMAIN calls : ConnectFails(c)
    \/ \E c \in DOMAIN calls : ExecuteSettings(c)
    \/ \E c \in DOMAIN calls : ExecuteSettingsFails(c)
    \/ \E c \in DOMAIN calls, p \in SessionPlans : ExecuteExplain(c, p)
    \/ \E c \in DOMAIN calls : ExecuteExplainFails(c)
SpecDirectives == InitOne /\ [][NextDirectives]_vars

\* One retrieval, then a preview of the plan it returned.
NextModify ==
    \/ \E c \in DOMAIN calls : CallRetrieveQEP(c)
    \/ \E c \in DOMAIN calls, m \in FewMods : CallRetrieveAQP(c, m)
    \/ \E c \in DOMAIN calls : ConnectToDb(c)
    \/ \E c \in DOMAIN calls : ConnectFails(c)
    \/ \E c \in DOMAIN calls : ExecuteSettings(c)
    \/ \E c \in DOMAIN calls : ExecuteSettingsFails(c)
    \/ \E c \in DOMAIN calls, p \in NarrowPlans : ExecuteExplain(c, p)
    \/ \E c \in DOMAIN calls : ExecuteExplainFails(c)
    \/ Preview(PreviewMods)
SpecModify == InitOne /\ [][NextModify]_vars

\* Cost comparisons.
NextCosts == \E qep \in CostPlans, aqp \in CostPlans : CompareCosts(qep, aqp)
SpecCosts == InitOne /\ [][NextCosts]_vars

----------------------------------------------------------------------------
(* Properties: node ids *)

\* The nodes of a plan, each with its path from the root (child positions
\* counted from 1).
RECURSIVE NodesAt(_, _)
NodesAt(node, path) ==
    { [path |-> path, node |-> node] }
    \cup UNION { NodesAt(Children(node)[i], Append(path, i)) : i \in DOMAIN Children(node) }

Nodes(plan) == NodesAt(plan, <<>>)

ParentPath(path) == SubSeq(path, 1, Len(path) - 1)

ChildIndex(path) == path[Len(path)] - 1

IdOf(n) == n.node["Node ID"]

Fanout(n) == Len(Children(n.node))

Siblings(a, b) ==
    /\ a.path # b.path
    /\ a.path # <<>>
    /\ b.path # <<>>
    /\ ParentPath(a.path) = ParentPath(b.path)

\* The plans the retrieve calls have returned.
ReturnedPlans ==
    { heap[calls[c].result.Plan] : c \in { d \in DOMAIN calls : calls[d].pc = "returned" } }

\* C1: in a returned plan whose nodes have at most 9 children each, the root
\* has id 1, every other node has id parent.id * 10 + childIndex (counted
\* from 0), and the ids of the plan are pairwise distinct.
C1_PathEncodedIds ==
    \A plan \in ReturnedPlans :
        LET N == Nodes(plan)
        IN  (\A n \in N : Fanout(n) <= 9) =>
                /\ plan["Node ID"] = 1
                /\ \A n \in N : n.path # <<>> =>
                      \E p \in N :
                          /\ p.path = ParentPath(n.path)
                          /\ IdOf(n) = IdOf(p) * 10 + ChildIndex(n.path)
                /\ \A a, b \in N : a.path # b.path => IdOf(a) # IdOf(b)

\* A returned plan with a node of 9 children, three levels deep, no node wider.
C1_Witness ==
    \E plan \in ReturnedPlans :
        LET N == Nodes(plan)
        IN  /\ \A n \in N : Fanout(n) <= 9
            /\ \E n \in N : Fanout(n) = 9 /\ n.path # <<>>
            /\ \E n \in N : Len(n.path) = 3

\* C10 as stated: a node with 10 or more children makes two of the children
\* of one parent receive the same id.
C10_SiblingCollision ==
    \A plan \in ReturnedPlans :
        LET N == Nodes(plan)
        IN  (\E n \in N : Fanout(n) >= 10) =>
                \E a, b \in N : Siblings(a, b) /\ IdOf(a) = IdOf(b)

\* C10, amended: two children of one parent never receive the same id; a
\* plan whose nodes have at most 10 children each has pairwise distinct ids;
\* when a node with id k has 11 or more children and a node with id k + 1
\* has a child, the eleventh child of the first and the first child of the
\* second receive the same id.
C10_CousinCollision ==
    \A plan \in ReturnedPlans :
        LET N == Nodes(plan)
        IN  /\ \A a, b \in N : Siblings(a, b) => IdOf(a) # IdOf(b)
            /\ (\A n \in N : Fanout(n) <= 10) =>
                   \A a, b \in N : a.path # b.path => IdOf(a) # IdOf(b)
            /\ \A a, b \in N :
                   (Fanout(a) >= 11 /\ Fanout(b) >= 1 /\ IdOf(b) = IdOf(a) + 1) =>
                       \E x, y \in N :
                           /\ x.path = Append(a.path, 11)
                           /\ y.path = Append(b.path, 1)
                           /\ IdOf(x) = IdOf(y)

\* A returned plan in which two nodes share an id.
C10_Witness ==
    \E plan \in ReturnedPlans :
        LET N == Nodes(plan)
        IN  /\ \E n \in N : Fanout(n) >= 10
            /\ \E a, b \in N : a.path # b.path /\ IdOf(a) = IdOf(b)

----------------------------------------------------------------------------
(* Properties: modify_qep *)

\* b is a with no change but the "Node Type" of nodes whose id is a key.
RECURSIVE SameButKeyedTypes(_, _, _)
SameButKeyedTypes(a, b, modifications) ==
    /\ DOMAIN a = DOMAIN b
    /\ \A k \in DOMAIN a \ {"Node Type", "Plans"} : a[k] = b[k]
    /\ ~HasKey(modifications, a["Node ID"]) => a["Node Type"] = b["Node Type"]
    /\ Len(Children(a)) = Len(Children(b))
    /\ \A i \in DOMAIN Children(a) :
           SameButKeyedTypes(Children(a)[i], Children(b)[i], modifications)

PreviewResult == heap[preview.modified_qep.Plan]

\* C2: the tree modify_qep returns has the shape and child order of the tree
\* passed in and differs from it only in the "Node Type" of nodes whose id is
\* a key; keys that match no node change nothing; no call raises.
C2_ShapePreserved ==
    preview.kind # "none" =>
        /\ preview.kind = "return"
        /\ SameButKeyedTypes(preview.before, PreviewResult, preview.modifications)
        /\ (\A n \in Nodes(preview.before) : ~HasKey(preview.modifications, IdOf(n)))
               => PreviewResult = preview.before

\* A preview of a three-level plan with a key of a child and a key of no node.
C2_Witness ==
    /\ preview.kind = "return"
    /\ HasKey(preview.modifications, 10)
    /\ HasKey(preview.modifications, 5)
    /\ PreviewResult # preview.before
    /\ \E n \in Nodes(preview.before) : Len(n.path) = 2

\* C3: the tree passed to modify_qep is, after the call, as it was before.
C3_InputUnchanged ==
    preview.kind = "return" => heap[preview.original_qep.Plan] = preview.before

\* C4: a node whose id is a key gets the entry's "Node Type" if the entry
\* has one, else the entry's "Scan Type" if it has one.
C4_NodeTypeWins ==
    preview.kind = "return" =>
        \A i \in DOMAIN preview.modifications, n \in Nodes(PreviewResult) :
            LET entry == preview.modifications[i][2]
            IN  IdOf(n) = preview.modifications[i][1] =>
                    /\ "Node Type" \in DOMAIN entry
                           => n.node["Node Type"] = entry["Node Type"]
                    /\ ("Scan Type" \in DOMAIN entry /\ "Node Type" \notin DOMAIN entry)
                           => n.node["Node Type"] = entry["Scan Type"]

\* An entry with both overrides, on a node that had neither value.
C4_Witness ==
    /\ preview.kind = "return"
    /\ \E i \in DOMAIN preview.modifications, n \in Nodes(preview.before) :
           LET entry == preview.modifications[i][2]
           IN  /\ IdOf(n) = preview.modifications[i][1]
               /\ DOMAIN entry = {"Scan Type", "Node Type"}
               /\ n.node["Node Type"] \notin {entry["Scan Type"], entry["Node Type"]}

----------------------------------------------------------------------------
(* Properties: planner settings *)

ScanGucs == {"enable_seqscan", "enable_indexscan", "enable_bitmapscan"}
JoinGucs == {"enable_mergejoin", "enable_hashjoin", "enable_nestloop"}

\* The one strategy a known override turns on.
Enabled(override) ==
    CASE override = "Index Scan" -> "enable_indexscan"
      [] override = "Seq Scan" -> "enable_seqscan"
      [] override = "Merge Join" -> "enable_mergejoin"
      [] override = "Hash Join" -> "enable_hashjoin"
      [] override = "Nested Loop" -> "enable_nestloop"

KnownScan(entry) ==
    "Scan Type" \in DOMAIN entry /\ entry["Scan Type"] \in {"Index Scan", "Seq Scan"}

KnownJoin(entry) ==
    "Node Type" \in DOMAIN entry
    /\ entry["Node Type"] \in {"Merge Join", "Hash Join", "Nested Loop"}

\* The assignments a known override stands for: its strategy ON, the other
\* strategies of its category OFF.
Group(category, override) ==
    { <<g, IF g = Enabled(override) THEN "ON" ELSE "OFF">> : g \in category }

\* The groups of a spec, entry by entry, the scan override of an entry first.
RECURSIVE Groups(_)
Groups(modifications) ==
    IF modifications = <<>> THEN <<>>
    ELSE LET entry == modifications[1][2]
         IN  (IF KnownScan(entry) THEN <<Group(ScanGucs, entry["Scan Type"])>> ELSE <<>>)
             \o (IF KnownJoin(entry) THEN <<Group(JoinGucs, entry["Node Type"])>> ELSE <<>>)
             \o Groups(Tail(modifications))

\* The configuration the last entry that touches each category dictates.
LastWins(modifications) ==
    LET scans == { i \in DOMAIN modifications : KnownScan(modifications[i][2]) }
        joins == { i \in DOMAIN modifications : KnownJoin(modifications[i][2]) }
        last(S) == CHOOSE i \in S : \A j \in S : j <= i
    IN  [g \in Gucs |->
            IF g \in ScanGucs
            THEN IF scans = {} THEN Defaults[g]
                 ELSE IF g = Enabled(modifications[last(scans)][2]["Scan Type"])
                      THEN "ON" ELSE "OFF"
            ELSE IF joins = {} THEN Defaults[g]
                 ELSE IF g = Enabled(modifications[last(joins)][2]["Node Type"])
                      THEN "ON" ELSE "OFF"]

AqpCalls == { c \in DOMAIN calls : calls[c].op = "retrieve_aqp" }

\* C5: the compiled settings are, group by group in entry order, the three
\* assignments of each known override, and a default session that ran them
\* has every category as the last entry that touches it dictates.
C5_DirectivesPerEntry ==
    \A c \in AqpCalls :
        LET stmts == Statements(calls[c].planner_settings)
            groups == Groups(calls[c].modifications)
        IN  /\ Len(stmts) = 3 * Len(groups)
            /\ \A k \in DOMAIN groups :
                   { Assignment(stmts[3 * (k - 1) + j]) : j \in 1..3 } = groups[k]
            /\ calls[c].pc \in {"explain", "returned"} =>
                   sessions[calls[c].conn] = LastWins(calls[c].modifications)

\* A returned call whose spec names two different joins and two different scans.
C5_Witness ==
    \E c \in AqpCalls :
        LET m == calls[c].modifications
        IN  /\ calls[c].pc = "returned"
            /\ Len(m) = 2
            /\ KnownJoin(m[1][2]) /\ KnownJoin(m[2][2])
            /\ m[1][2]["Node Type"] # m[2][2]["Node Type"]
            /\ KnownScan(m[1][2]) /\ KnownScan(m[2][2])
            /\ m[1][2]["Scan Type"] # m[2][2]["Scan Type"]

RemoveAt(seq, i) == SubSeq(seq, 1, i - 1) \o SubSeq(seq, i + 1, Len(seq))

\* C6: an entry with no known override contributes nothing: the compiled
\* settings are those of the spec without the entry.
C6_UnknownEntryDropped ==
    \A c \in AqpCalls :
        \A i \in DOMAIN calls[c].modifications :
            LET entry == calls[c].modifications[i][2]
            IN  (~KnownScan(entry) /\ ~KnownJoin(entry)) =>
                    calls[c].planner_settings =
                        apply_planner_settings(RemoveAt(calls[c].modifications, i))

----------------------------------------------------------------------------
(* Properties: sessions *)

\* C7: every plan request is evaluated under the defaults overridden by the
\* settings of its own call (none for retrieve_qep): the call's session has
\* that configuration from the step before the request on, and no two calls
\* hold the same session.
C7_SessionIsolation ==
    \A c \in DOMAIN calls :
        LET own == IF calls[c].op = "retrieve_aqp"
                   THEN ExecuteSettingsOn(Defaults, calls[c].planner_settings)
                   ELSE Defaults
        IN  /\ calls[c].plan_cfg # <<>> => calls[c].plan_cfg[1] = own
            /\ calls[c].pc \in {"explain", "returned"} =>
                   sessions[calls[c].conn] = own
            /\ \A d \in DOMAIN calls :
                   (d # c /\ calls[c].conn # 0) => calls[d].conn # calls[c].conn

\* Two calls returned, each planned under settings of its own, neither the
\* defaults.
C7_Witness ==
    \E c, d \in DOMAIN calls :
        /\ calls[c].pc = "returned"
        /\ calls[d].pc = "returned"
        /\ calls[c].plan_cfg[1] # Defaults
        /\ calls[d].plan_cfg[1] # Defaults
        /\ calls[c].plan_cfg[1] # calls[d].plan_cfg[1]

----------------------------------------------------------------------------
(* Properties: compare_costs *)

HasCost(qep) == "Total Cost" \in DOMAIN qep.Plan

\* C8: a root without a Total Cost ends the comparison in an error, with no
\* record; two roots with one end it with a record of the two costs.
C8_MissingCostRaises ==
    comparison.kind = "called" =>
        IF HasCost(comparison.qep) /\ HasCost(comparison.aqp)
        THEN /\ comparison.outcome.kind = "return"
             /\ comparison.outcome.value["Original Cost"]
                    = comparison.qep.Plan["Total Cost"]
             /\ comparison.outcome.value["Modified Cost"]
                    = comparison.aqp.Plan["Total Cost"]
        ELSE /\ comparison.outcome.kind = "raise"
             /\ "value" \notin DOMAIN comparison.outcome

\* A comparison of a plan with a cost against one without.
C8_Witness ==
    /\ comparison.kind = "called"
    /\ HasCost(comparison.qep)
    /\ ~HasCost(comparison.aqp)
    /\ comparison.outcome.kind = "raise"

\* C9: the difference of (A, B) is the negation of the difference of (B, A),
\* and is the alternative's cost minus the original's to the nearest
\* hundredth.
C9_Antisymmetric ==
    (comparison.kind = "called" /\ HasCost(comparison.qep) /\ HasCost(comparison.aqp)) =>
        LET d == comparison.outcome.value["Cost Difference"]
            back == compare_costs(comparison.aqp, comparison.qep)
            exact == comparison.aqp.Plan["Total Cost"] - comparison.qep.Plan["Total Cost"]
        IN  /\ back.kind = "return"
            /\ d = 0 - back.value["Cost Difference"]
            /\ 2 * (d * Step - exact) <= Step
            /\ 2 * (exact - d * Step) <= Step

\* A comparison whose exact difference lies halfway between two hundredths.
C9_Witness ==
    /\ comparison.kind = "called"
    /\ HasCost(comparison.qep)
    /\ HasCost(comparison.aqp)
    /\ (comparison.aqp.Plan["Total Cost"] - comparison.qep.Plan["Total Cost"]) % Step
           = Step \div 2
    /\ comparison.aqp.Plan["Total Cost"] < comparison.qep.Plan["Total Cost"]

====
